---- MODULE Spec2Model ----
(***************************************************************************)
(* A model of the FSM-driven interactor (src/src/FSMInteractor.ts) and of  *)
(* the event specifications its FSM matches events against                 *)
(* (src/out/EventSpec.js).                                                 *)
(*                                                                         *)
(* Spec    : one FSMInteractor object: its fields, its setters, pick,      *)
(*           dispatchRawEvent and the asynchronous loader.                 *)
(* SpecES  : one EventSpec object: construction, bindRegion and match.     *)
(*                                                                         *)
(* Region, FSM, Root and Err are collaborators whose code is not part of   *)
(* the sources; what the model needs of them (a region's name and hit      *)
(* test, an FSM's region list) is stated in the "collaborators" section.   *)
(***************************************************************************)
EXTENDS Integers, Sequences, FiniteSets, TLC

\* ---------------------------------------------------------------- bounds

\* Calls of startLoadFromJson that may be outstanding at one time.
MaxLoads == 1

\* Longest region list handed to bindRegion.
MaxBindList == 2

\* ---------------------------------------------------------- collaborators

\* "no object": JavaScript's undefined for an FSM, a Region or a Root.
None == 0

\* The FSM objects: FSM 1 has three regions, FSM 2 has two.
FSMs == {1, 2}

\* fsm.regions of FSM object f as FSM.fromJson builds it: its Region
\* objects in drawing order.  A region belongs to one FSM object.
RegionList(f) == IF f = 1 THEN <<11, 12, 13>> ELSE <<21, 22>>

RegionsOf(f) == {RegionList(f)[i] : i \in 1 .. Len(RegionList(f))}

Regions == UNION {RegionsOf(f) : f \in FSMs}

\* The shape of a region: 1..3 within its FSM.
Shape(r) == r % 10

\* The FSM a region belongs to.
Owner(r) == r \div 10

\* Region.name.  Regions of different FSMs may carry the same name, and a
\* region may be named by the empty string.
RegionName(r) ==
  IF Owner(r) = 1
  THEN CASE Shape(r) = 1 -> "A" [] Shape(r) = 2 -> "B" [] OTHER -> "C"
  ELSE CASE Shape(r) = 1 -> "A" [] OTHER -> ""

\* The bounding box of a region in the interactor's local coordinates:
\* <<x, y, w, h>>.
RegionBox(r) ==
  IF Owner(r) = 1
  THEN CASE Shape(r) = 1 -> <<0, 0, 3, 3>>
         [] Shape(r) = 2 -> <<2, 0, 3, 3>>
         [] OTHER        -> <<1, 2, 3, 2>>
  ELSE CASE Shape(r) = 1 -> <<0, 0, 3, 3>>
         [] OTHER        -> <<2, 2, 3, 2>>

\* Region.pick(localX, localY): the point lies within the bounding box.
RegionPick(r, localX, localY) ==
  LET b == RegionBox(r)
  IN  /\ b[1] <= localX /\ localX < b[1] + b[3]
      /\ b[2] <= localY /\ localY < b[2] + b[4]

\* The points raw events are dispatched at: one for every combination of the
\* regions of FSM 1 (none, each alone, each pair, all three).
Points ==
  { <<0, 3>>, <<0, 0>>, <<4, 0>>, <<1, 3>>,
    <<2, 0>>, <<1, 2>>, <<3, 2>>, <<2, 2>> }

\* The raw event kinds.
RawKinds == {"press", "move", "release"}

\* The hosting Root objects.
Roots == {1, 2}

\* The values a position coordinate is set to.
Coords == {0, 1}

\* ------------------------------------------------------------------ state

VARIABLES
  fsm,         \* this._fsm: None or an FSM object
  fsmRegions,  \* fsm.regions of every FSM object, in drawing order
  x, y,        \* this._x, this._y
  parent,      \* this._parent: None or a Root
  visited,     \* this._visited
  loads,       \* how many startLoadFromJson calls wait at each await
  called,      \* the last call made on the interactor: [op, what, px, py]
  before,      \* the interactor's fields when the last call was made
  delivered,   \* the events the last call handed to fsm.actOnEvent, in order
  returned,    \* what the last call of pick returned
  emitted,     \* how many times the last step called Err.emit
  damaged,     \* the Roots whose damage() the last step called, in order
  inside,      \* the regions the installed FSM was told entered and not exited
  orderly,     \* the events of the last call came to the FSM in a sound order
  es,          \* an EventSpec: [evtType, regionName, region]
  esBefore,    \* the EventSpec when the last call on it was made
  esCalled,    \* the last call on it: [op, list, evtType, regn]
  esReturned   \* what the last call of match returned

esvars == <<es, esBefore, esCalled, esReturned>>

vars == <<fsm, fsmRegions, x, y, parent, visited, loads, called, before,
          delivered, returned, emitted, damaged, inside, orderly,
          es, esBefore, esCalled, esReturned>>

\* ---------------------------------------------------------------- helpers

\* Array.prototype.includes
Includes(s, e) == \E i \in 1 .. Len(s) : s[i] = e

\* Array.prototype.reverse
Reverse(s) == [i \in 1 .. Len(s) |-> s[Len(s) + 1 - i]]

\* A semantic event as handed to FSM.actOnEvent(evtType, regn).
Evt(k, r) == [kind |-> k, region |-> r]

\* arr.forEach(element => this.fsm?.actOnEvent(k, element))
ForEach(k, arr) == [i \in 1 .. Len(arr) |-> Evt(k, arr[i])]

\* What an FSM object that has been told the regions of set ins entered
\* makes of the events evts it is handed next, one after the other: the
\* regions it is then inside of, and whether every event was one it could
\* expect (an enter of a region it is not inside of; an exit, press,
\* move_inside or release of a region it is inside of; a release_none while
\* it is inside of none).
RECURSIVE actOnEvents(_, _)
actOnEvents(ins, evts) ==
  IF evts = <<>> THEN [inside |-> ins, ok |-> TRUE]
  ELSE LET e == Head(evts)
           okHere == CASE e.kind = "enter" -> e.region \notin ins
                       [] e.kind = "release_none" -> ins = {}
                       [] OTHER -> e.region \in ins
           next == CASE e.kind = "enter" -> ins \cup {e.region}
                     [] e.kind = "exit" -> ins \ {e.region}
                     [] OTHER -> ins
           rest == actOnEvents(next, Tail(evts))
       IN  [inside |-> rest.inside, ok |-> okHere /\ rest.ok]

\* A call record.
Call(o, w, px, py) == [op |-> o, what |-> w, px |-> px, py |-> py]

NoESCall == [op |-> "new", list |-> <<>>, evtType |-> "", regn |-> None]

\* ------------------------------------------------------------ FSMInteractor

\* The fields of the interactor and of its FSM objects, as a call finds them.
Snapshot ==
  [fsm |-> fsm, fsmRegions |-> fsmRegions, x |-> x, y |-> y,
   parent |-> parent, visited |-> visited, loads |-> loads]

\* constructor(fsm, x, y, parent)
Init ==
  /\ fsm \in {None} \cup FSMs
  /\ fsmRegions = [f \in FSMs |-> RegionList(f)]
  /\ x \in Coords
  /\ y \in Coords
  /\ parent \in {None} \cup Roots
  /\ visited = <<>>
  /\ loads = [fetch |-> 0, json |-> 0]
  /\ called = Call("new", "", 0, 0)
  /\ before = Snapshot
  /\ delivered = <<>>
  /\ returned = <<>>
  /\ emitted = 0
  /\ damaged = <<>>
  /\ inside = {}
  /\ orderly = TRUE
  /\ es = [evtType |-> "nevermatch", regionName |-> "*", region |-> None]
  /\ esBefore = es
  /\ esCalled = NoESCall
  /\ esReturned = FALSE

\* The loop of pick: every region of the list the point is inside of, pushed
\* in list order.
RECURSIVE pickLoop(_, _, _, _, _)
pickLoop(region, localX, localY, i, pickList) ==
  IF i > Len(region) THEN pickList
  ELSE pickLoop(region, localX, localY, i + 1,
                IF RegionPick(region[i], localX, localY)
                THEN Append(pickList, region[i]) ELSE pickList)

\* pick as it would be without "pickList.reverse()".
pick_NoReverse(localX, localY) ==
  IF fsm = None THEN <<>>
  ELSE pickLoop(fsmRegions[fsm], localX, localY, 1, <<>>)

\* pick(localX, localY)
pick(localX, localY) ==
  IF fsm = None THEN <<>>
  ELSE Reverse(pickLoop(fsmRegions[fsm], localX, localY, 1, <<>>))

\* all_exit(v), with this.visited = vis
RECURSIVE all_exit_loop(_, _, _, _)
all_exit_loop(vis, v, i, exits) ==
  IF i > Len(vis) THEN exits
  ELSE all_exit_loop(vis, v, i + 1,
                     IF ~Includes(v, vis[i]) THEN Append(exits, vis[i]) ELSE exits)

\* all_exit as it would be with the two arrays taken for each other.
all_exit_Swapped(vis, v) == all_exit_loop(v, vis, 1, <<>>)

all_exit(vis, v) == all_exit_loop(vis, v, 1, <<>>)

\* all_enter(v), with this.visited = vis
RECURSIVE all_enter_loop(_, _, _, _)
all_enter_loop(vis, v, i, enters) ==
  IF i > Len(v) THEN enters
  ELSE all_enter_loop(vis, v, i + 1,
                      IF ~Includes(vis, v[i]) THEN Append(enters, v[i]) ELSE enters)

\* all_enter without the test against the visited set.
all_enter_All(vis, v) == v

all_enter(vis, v) == all_enter_loop(vis, v, 1, <<>>)

\* all_move_inside(v), with this.visited = vis
RECURSIVE all_move_inside_loop(_, _, _, _)
all_move_inside_loop(vis, v, i, move_insides) ==
  IF i > Len(v) THEN move_insides
  ELSE all_move_inside_loop(vis, v, i + 1,
                            IF Includes(vis, v[i]) THEN Append(move_insides, v[i])
                            ELSE move_insides)

\* all_move_inside as it would be without the test on this.visited.
all_move_inside_All(vis, v) == v

all_move_inside(vis, v) == all_move_inside_loop(vis, v, 1, <<>>)

\* The switch as it would be without the test "regions.length === 0".
actionEvents_NoReleaseNone(what, vis, regions) ==
  CASE what = "press" -> ForEach("press", regions)
    [] what = "move"  -> ForEach("move_inside", all_move_inside(vis, regions))
    [] OTHER          -> ForEach("release", regions)

\* The switch as it would be with press delivered like move_inside, to the
\* regions already visited only.
actionEvents_PressVisited(what, vis, regions) ==
  CASE what = "press" -> ForEach("press", all_move_inside(vis, regions))
    [] what = "move"  -> ForEach("move_inside", all_move_inside(vis, regions))
    [] OTHER          -> IF Len(regions) = 0
                         THEN <<Evt("release_none", None)>>
                         ELSE ForEach("release", regions)

\* The switch of dispatchRawEvent: the events of the raw kind itself.
actionEvents(what, vis, regions) ==
  CASE what = "press" -> ForEach("press", regions)
    [] what = "move"  -> ForEach("move_inside", all_move_inside(vis, regions))
    [] OTHER          -> IF Len(regions) = 0
                         THEN <<Evt("release_none", None)>>
                         ELSE ForEach("release", regions)

\* dispatchRawEvent as it would be with the enters delivered before the exits.
dispatchEvents_EntersFirst(what, vis, regions) ==
  ForEach("enter", all_enter(vis, regions))
    \o ForEach("exit", all_exit(vis, regions))
    \o actionEvents(what, vis, regions)

\* Everything dispatchRawEvent hands to actOnEvent, in the order it does.
dispatchEvents(what, vis, regions) ==
  ForEach("exit", all_exit(vis, regions))
    \o ForEach("enter", all_enter(vis, regions))
    \o actionEvents(what, vis, regions)

\* The early return as it would be placed after a reset of this.visited.
dispatchNoFsm_Clear ==
  /\ delivered' = <<>>
  /\ visited' = <<>>

\* dispatchRawEvent without an FSM: the early return.
dispatchNoFsm ==
  /\ delivered' = <<>>
  /\ UNCHANGED visited

\* dispatchRawEvent as it would be with "this.visited = regions" inside the
\* press and move cases of the switch only.
dispatchWithFsm_NoUpdateOnRelease(what, localX, localY) ==
  LET regions == pick(localX, localY)
  IN  /\ delivered' = dispatchEvents(what, visited, regions)
      /\ visited' = IF what \in {"press", "move"} THEN regions ELSE visited

\* dispatchRawEvent with an FSM.
dispatchWithFsm(what, localX, localY) ==
  LET regions == pick(localX, localY)
  IN  /\ delivered' = dispatchEvents(what, visited, regions)
      /\ visited' = regions

\* dispatchRawEvent(what, localX, localY)
dispatchRawEvent(what, localX, localY) ==
  /\ called' = Call("dispatchRawEvent", what, localX, localY)
  /\ before' = Snapshot
  /\ IF fsm = None THEN dispatchNoFsm ELSE dispatchWithFsm(what, localX, localY)
  /\ inside' = actOnEvents(inside, delivered').inside
  /\ orderly' = actOnEvents(inside, delivered').ok
  /\ returned' = <<>>
  /\ emitted' = 0
  /\ damaged' = <<>>
  /\ UNCHANGED <<fsm, fsmRegions, x, y, parent, loads, esvars>>

\* A call of pick(localX, localY) by the host.
Pick(localX, localY) ==
  /\ called' = Call("pick", "", localX, localY)
  /\ before' = Snapshot
  /\ returned' = pick(localX, localY)
  /\ delivered' = <<>>
  /\ orderly' = TRUE
  /\ emitted' = 0
  /\ damaged' = <<>>
  /\ UNCHANGED <<fsm, fsmRegions, x, y, parent, visited, loads, inside, esvars>>

\* damage(): this.parent?.damage()
damage(p) == IF p = None THEN <<>> ELSE <<p>>

\* What a step that is no dispatch and no pick leaves of the last call.
Quiet(o) ==
  /\ called' = Call(o, "", 0, 0)
  /\ before' = Snapshot
  /\ delivered' = <<>>
  /\ returned' = <<>>
  /\ orderly' = TRUE

\* set x(v)
SetX(v) ==
  /\ Quiet("set x")
  /\ IF ~(x = v)
     THEN x' = v /\ damaged' = damage(parent)
     ELSE UNCHANGED x /\ damaged' = <<>>
  /\ emitted' = 0
  /\ UNCHANGED <<fsm, fsmRegions, y, parent, visited, loads, inside, esvars>>

\* set y(v)
SetY(v) ==
  /\ Quiet("set y")
  /\ IF ~(y = v)
     THEN y' = v /\ damaged' = damage(parent)
     ELSE UNCHANGED y /\ damaged' = <<>>
  /\ emitted' = 0
  /\ UNCHANGED <<fsm, fsmRegions, x, parent, visited, loads, inside, esvars>>

\* set position(v): "this.parent?.damage;" reads the method and calls nothing.
SetPosition(vx, vy) ==
  /\ Quiet("set position")
  /\ IF (vx # x) \/ (vy # y)
     THEN x' = vx /\ y' = vy
     ELSE UNCHANGED <<x, y>>
  /\ damaged' = <<>>
  /\ emitted' = 0
  /\ UNCHANGED <<fsm, fsmRegions, parent, visited, loads, inside, esvars>>

\* set parent(v): damage to the old parent, then to the new one.
SetParent(v) ==
  /\ Quiet("set parent")
  /\ IF ~(parent = v)
     THEN parent' = v /\ damaged' = damage(parent) \o damage(v)
     ELSE UNCHANGED parent /\ damaged' = <<>>
  /\ emitted' = 0
  /\ UNCHANGED <<fsm, fsmRegions, x, y, visited, loads, inside, esvars>>

\* A call of damage() by the FSM or the host.
Damage ==
  /\ Quiet("damage")
  /\ damaged' = damage(parent)
  /\ emitted' = 0
  /\ UNCHANGED <<fsm, fsmRegions, x, y, parent, visited, loads, inside, esvars>>

\* draw(ctx, showDebugging): the regions drawn, in the order they are drawn.
Draw ==
  /\ called' = Call("draw", "", 0, 0)
  /\ before' = Snapshot
  /\ delivered' = <<>>
  /\ returned' = IF fsm = None THEN <<>> ELSE fsmRegions[fsm]
  /\ orderly' = TRUE
  /\ emitted' = 0
  /\ damaged' = <<>>
  /\ UNCHANGED <<fsm, fsmRegions, x, y, parent, visited, loads, inside, esvars>>

\* The calls of startLoadFromJson that have not finished.
Outstanding == loads.fetch + loads.json

\* An FSM object that FSM.fromJson can newly create: one nothing refers to.
Fresh(f) == f # fsm /\ \A i \in 1 .. Len(visited) : Owner(visited[i]) # f

\* startLoadFromJson(jsonLoc) up to "await fetch(jsonLoc)".
StartLoad ==
  /\ Outstanding < MaxLoads
  /\ Quiet("startLoadFromJson")
  /\ loads' = [loads EXCEPT !.fetch = @ + 1]
  /\ emitted' = 0
  /\ damaged' = <<>>
  /\ UNCHANGED <<fsm, fsmRegions, x, y, parent, visited, inside, esvars>>

\* The fetch promise rejects: the async function ends by throwing.
FetchRejects ==
  /\ loads.fetch > 0
  /\ Quiet("load: fetch rejects")
  /\ loads' = [loads EXCEPT !.fetch = @ - 1]
  /\ emitted' = 0
  /\ damaged' = <<>>
  /\ UNCHANGED <<fsm, fsmRegions, x, y, parent, visited, inside, esvars>>

\* The response is not ok.
FetchNotOk ==
  /\ loads.fetch > 0
  /\ Quiet("load: response not ok")
  /\ loads' = [loads EXCEPT !.fetch = @ - 1]
  /\ emitted' = 1
  /\ fsm' = None
  /\ inside' = {}
  /\ damaged' = <<>>
  /\ UNCHANGED <<fsmRegions, x, y, parent, visited, esvars>>

\* The response is ok: on to "await response.json()".
FetchOk ==
  /\ loads.fetch > 0
  /\ Quiet("load: response ok")
  /\ loads' = [loads EXCEPT !.fetch = @ - 1, !.json = @ + 1]
  /\ emitted' = 0
  /\ damaged' = <<>>
  /\ UNCHANGED <<fsm, fsmRegions, x, y, parent, visited, inside, esvars>>

\* response.json() rejects, or FSM.fromJson throws: the async function ends
\* by throwing, before the assignment to this._fsm.
JsonRejects ==
  /\ loads.json > 0
  /\ Quiet("load: json rejects")
  /\ loads' = [loads EXCEPT !.json = @ - 1]
  /\ emitted' = 0
  /\ damaged' = <<>>
  /\ UNCHANGED <<fsm, fsmRegions, x, y, parent, visited, inside, esvars>>

\* The installation as it would be with this._visited reset along with
\* this._fsm.
Install_ResetVisited(f) ==
  /\ loads.json > 0
  /\ Fresh(f)
  /\ Quiet("load: installed")
  /\ loads' = [loads EXCEPT !.json = @ - 1]
  /\ fsm' = f
  /\ inside' = {}
  /\ visited' = <<>>
  /\ damaged' = damage(parent)
  /\ emitted' = 0
  /\ UNCHANGED <<fsmRegions, x, y, parent, esvars>>

\* The description arrives and FSM.fromJson builds FSM object f of it.
Install(f) ==
  /\ loads.json > 0
  /\ Fresh(f)
  /\ Quiet("load: installed")
  /\ loads' = [loads EXCEPT !.json = @ - 1]
  /\ fsm' = f
  /\ inside' = {}
  /\ damaged' = damage(parent)
  /\ emitted' = 0
  /\ UNCHANGED <<fsmRegions, x, y, parent, visited, esvars>>

Next ==
  \/ \E what \in RawKinds, p \in Points : dispatchRawEvent(what, p[1], p[2])
  \/ \E p \in Points : Pick(p[1], p[2])
  \/ \E v \in Coords : SetX(v)
  \/ \E v \in Coords : SetY(v)
  \/ \E vx \in Coords, vy \in Coords : SetPosition(vx, vy)
  \/ \E v \in {None} \cup Roots : SetParent(v)
  \/ Damage
  \/ Draw
  \/ StartLoad
  \/ FetchRejects
  \/ FetchNotOk
  \/ FetchOk
  \/ JsonRejects
  \/ \E f \in FSMs : Install(f)

Spec == Init /\ [][Next]_vars

\* An interactor whose FSM does not change: one on which startLoadFromJson
\* is never called.
NextFixed ==
  \/ \E what \in RawKinds, p \in Points : dispatchRawEvent(what, p[1], p[2])
  \/ \E p \in Points : Pick(p[1], p[2])
  \/ \E v \in Coords : SetX(v)
  \/ \E v \in Coords : SetY(v)
  \/ \E vx \in Coords, vy \in Coords : SetPosition(vx, vy)
  \/ \E v \in {None} \cup Roots : SetParent(v)
  \/ Damage
  \/ Draw

SpecFixed == Init /\ [][NextFixed]_vars

\* ---------------------------------------------------------------- EventSpec

\* evtTypeStrings
EvtTypes == {"press", "release", "release_none", "enter", "exit",
             "move_inside", "any", "nevermatch"}

\* The region names a specification is written with: the wildcard, the empty
\* name, names regions carry and a name no region carries.
SpecNames == {"*", "", "A", "B", "Z"}

\* The region lists handed to bindRegion: lists of distinct regions.
BindLists ==
  UNION { { l \in [1 .. n -> Regions] : \A i, j \in 1 .. n : l[i] = l[j] => i = j }
          : n \in 0 .. MaxBindList }

\* constructor(evtTyp, regionName)
NewEventSpec(evtTyp, regionName) ==
  [evtType |-> evtTyp, regionName |-> regionName, region |-> None]

\* The interactor of SpecES: constructed with its defaults and left alone.
InitES ==
  /\ fsm = None
  /\ fsmRegions = [f \in FSMs |-> RegionList(f)]
  /\ x = 0
  /\ y = 0
  /\ parent = None
  /\ visited = <<>>
  /\ loads = [fetch |-> 0, json |-> 0]
  /\ called = Call("new", "", 0, 0)
  /\ before = Snapshot
  /\ delivered = <<>>
  /\ returned = <<>>
  /\ emitted = 0
  /\ damaged = <<>>
  /\ inside = {}
  /\ orderly = TRUE
  /\ \E t \in EvtTypes, n \in SpecNames : es = NewEventSpec(t, n)
  /\ esBefore = es
  /\ esCalled = NoESCall
  /\ esReturned = FALSE

\* The loop of bindRegion: the index of the first region of the list that
\* carries the name, 0 when the loop ends without one.
RECURSIVE bindLoop(_, _, _)
bindLoop(regionList, name, i) ==
  IF i > Len(regionList) THEN 0
  ELSE IF RegionName(regionList[i]) = name THEN i
  ELSE bindLoop(regionList, name, i + 1)

\* bindRegion as it would be without the test of the empty region name.
bindRegion_AnyName(e, regionList) ==
  IF e.regionName = "*"
  THEN [region |-> None, emits |-> 0]
  ELSE LET i == bindLoop(regionList, e.regionName, 1)
       IN  IF i # 0
           THEN [region |-> regionList[i], emits |-> 0]
           ELSE IF e.evtType = "nevermatch"
           THEN [region |-> e.region, emits |-> 0]
           ELSE IF e.evtType = "release_none" \/ e.evtType = "any"
           THEN [region |-> None, emits |-> 0]
           ELSE [region |-> e.region, emits |-> 1]

\* bindRegion as it would be with a guard against rebinding that clears the
\* bound region instead of keeping it.
bindRegion_ClearIfBound(e, regionList) ==
  IF e.region # None
  THEN [region |-> None, emits |-> 0]
  ELSE IF e.regionName = "*"
  THEN [region |-> None, emits |-> 0]
  ELSE LET i == bindLoop(regionList, e.regionName, 1)
       IN  IF i # 0
           THEN [region |-> regionList[i], emits |-> 0]
           ELSE IF e.evtType = "nevermatch"
           THEN [region |-> e.region, emits |-> 0]
           ELSE IF (e.evtType = "release_none" \/ e.evtType = "any")
                   /\ e.regionName = ""
           THEN [region |-> None, emits |-> 0]
           ELSE [region |-> e.region, emits |-> 1]

\* bindRegion(regionList) on specification e: the _region it leaves and the
\* number of Err.emit calls it makes.
bindRegion(e, regionList) ==
  IF e.regionName = "*"
  THEN [region |-> None, emits |-> 0]
  ELSE LET i == bindLoop(regionList, e.regionName, 1)
       IN  IF i # 0
           THEN [region |-> regionList[i], emits |-> 0]
           ELSE IF e.evtType = "nevermatch"
           THEN [region |-> e.region, emits |-> 0]
           ELSE IF (e.evtType = "release_none" \/ e.evtType = "any")
                   /\ e.regionName = ""
           THEN [region |-> None, emits |-> 0]
           ELSE [region |-> e.region, emits |-> 1]

\* match as it would be without the wildcard case.
match_NoWildcard(e, evtType, regn) ==
  IF e.evtType = "release_none"
  THEN evtType = e.evtType
  ELSE evtType = e.evtType /\ regn = e.region

\* match as it would be without the release_none case.
match_NoReleaseNone(e, evtType, regn) ==
  IF e.regionName = "*" /\ e.region = None
  THEN TRUE
  ELSE evtType = e.evtType /\ regn = e.region

\* match as it would be with regions compared by their names.
match_ByName(e, evtType, regn) ==
  IF e.regionName = "*" /\ e.region = None
  THEN TRUE
  ELSE IF e.evtType = "release_none"
  THEN evtType = e.evtType
  ELSE /\ evtType = e.evtType
       /\ \/ regn = e.region
          \/ /\ regn # None
             /\ e.region # None
             /\ RegionName(regn) = RegionName(e.region)

\* match(evtType, regn) on specification e
match(e, evtType, regn) ==
  IF e.regionName = "*" /\ e.region = None
  THEN TRUE
  ELSE IF e.evtType = "release_none"
  THEN evtType = e.evtType
  ELSE evtType = e.evtType /\ regn = e.region

\* A call of bindRegion(regionList).
BindRegion(regionList) ==
  LET b == bindRegion(es, regionList)
  IN  /\ es' = [es EXCEPT !.region = b.region]
      /\ esBefore' = es
      /\ emitted' = b.emits
      /\ esCalled' = [op |-> "bindRegion", list |-> regionList,
                      evtType |-> "", regn |-> None]
      /\ esReturned' = FALSE
      /\ UNCHANGED <<fsm, fsmRegions, x, y, parent, visited, loads, called,
                     before, delivered, returned, damaged, inside, orderly>>

\* A call of match(evtType, regn).
Match(evtType, regn) ==
  /\ esReturned' = match(es, evtType, regn)
  /\ esBefore' = es
  /\ esCalled' = [op |-> "match", list |-> <<>>,
                  evtType |-> evtType, regn |-> regn]
  /\ emitted' = 0
  /\ UNCHANGED <<es, fsm, fsmRegions, x, y, parent, visited, loads, called,
                 before, delivered, returned, damaged, inside, orderly>>

NextES ==
  \/ \E regionList \in BindLists : BindRegion(regionList)
  \/ \E evtType \in EvtTypes, regn \in {None} \cup Regions : Match(evtType, regn)

SpecES == InitES /\ [][NextES]_vars

\* --------------------------------------------------------------- properties
\* The vocabulary of the properties is stated apart from the operators that
\* model the code: sets and orders, not loops over arrays.

\* The elements of a sequence.
Range(s) == {s[i] : i \in 1 .. Len(s)}

\* s holds no element twice.
NoRepeat(s) == \A i, j \in 1 .. Len(s) : s[i] = s[j] => i = j

\* The place of region r in the drawing order of the installed FSM.
DrawIndex(r) == CHOOSE i \in 1 .. Len(fsmRegions[fsm]) : fsmRegions[fsm][i] = r

\* The regions of the installed FSM whose hit test accepts the point of the
\* last call.
PickedSet ==
  IF fsm = None THEN {}
  ELSE {r \in Range(fsmRegions[fsm]) : RegionPick(r, called.px, called.py)}

\* The regions of S, the one drawn last first.
RECURSIVE TopmostFirst(_)
TopmostFirst(S) ==
  IF S = {} THEN <<>>
  ELSE LET top == CHOOSE r \in S : \A q \in S : DrawIndex(q) <= DrawIndex(r)
       IN  <<top>> \o TopmostFirst(S \ {top})

\* The pick list of the last call's point.
PickList == TopmostFirst(PickedSet)

\* The regions of the delivered events of kind k, in delivery order.
RECURSIVE RegionsOfKind(_, _)
RegionsOfKind(evts, k) ==
  IF evts = <<>> THEN <<>>
  ELSE (IF Head(evts).kind = k THEN <<Head(evts).region>> ELSE <<>>)
         \o RegionsOfKind(Tail(evts), k)

Delivered(k) == RegionsOfKind(delivered, k)

\* Those elements of sequence s that are in set S (Keep) or not in it (Drop),
\* in the order of s.
RECURSIVE Keep(_, _)
Keep(s, S) ==
  IF s = <<>> THEN <<>>
  ELSE (IF Head(s) \in S THEN <<Head(s)>> ELSE <<>>) \o Keep(Tail(s), S)

Drop(s, S) == Keep(s, Range(s) \ S)

\* The last call was a dispatchRawEvent, on an interactor with an FSM.
Dispatched == called.op = "dispatchRawEvent" /\ fsm # None

\* The group of a semantic event kind: exits, enters, action-specific.
Group(k) == CASE k = "exit" -> 1 [] k = "enter" -> 2 [] OTHER -> 3

\* C1: the events of one dispatch are delivered as all exits, then all
\* enters, then all action-specific events (press, move_inside, release,
\* release_none); enters and action events come in pick-list order (topmost
\* first), exits in the order of the visited set.  A press at a point over
\* regions B (drawn second) and A (drawn first) of an interactor that has
\* visited nothing delivers enter B, enter A, press B, press A.
C1_ExitsEntersActions ==
  Dispatched =>
    /\ \A i \in 1 .. Len(delivered) :
         delivered[i].kind \in {"exit", "enter", "press", "move_inside",
                                "release", "release_none"}
    /\ \A i, j \in 1 .. Len(delivered) :
         i < j =>
           /\ Group(delivered[i].kind) <= Group(delivered[j].kind)
           /\ Group(delivered[i].kind) = Group(delivered[j].kind)
                => delivered[i].kind = delivered[j].kind
           /\ delivered[i].kind = delivered[j].kind /\ delivered[i].kind # "exit"
                => DrawIndex(delivered[i].region) > DrawIndex(delivered[j].region)
           /\ delivered[i].kind = "exit" /\ delivered[j].kind = "exit"
                => \E a, b \in 1 .. Len(before.visited) :
                     /\ a < b
                     /\ before.visited[a] = delivered[i].region
                     /\ before.visited[b] = delivered[j].region
    /\ (fsm = 1 /\ before.visited = <<>> /\ called.what = "press"
          /\ called.px = 2 /\ called.py = 0)
         => delivered = << Evt("enter", 12), Evt("enter", 11),
                           Evt("press", 12), Evt("press", 11) >>

\* C1 witness: a dispatch that delivered exits, several enters and several
\* action events.
C1_Witness ==
  /\ Dispatched
  /\ Len(Delivered("exit")) >= 2
  /\ Len(Delivered("enter")) >= 2
  /\ Len(Delivered("release")) >= 2

\* C2: the regions that get an exit are exactly those of the previous visited
\* set that are not picked, in the visited set's order; the regions that get
\* an enter are exactly the picked regions that were not visited, in pick-list
\* order; no region gets both.
C2_ExitsAndEnters ==
  Dispatched =>
    /\ Delivered("exit") = Drop(before.visited, PickedSet)
    /\ Delivered("enter") = Drop(PickList, Range(before.visited))
    /\ Range(Delivered("exit")) = Range(before.visited) \ PickedSet
    /\ Range(Delivered("enter")) = PickedSet \ Range(before.visited)
    /\ Range(Delivered("exit")) \cap Range(Delivered("enter")) = {}
    /\ Range(Delivered("exit")) \cap PickedSet = {}
    /\ Range(Delivered("enter")) \cap Range(before.visited) = {}
    /\ NoRepeat(Delivered("exit"))
    /\ NoRepeat(Delivered("enter"))

\* C2 witness: a dispatch in which one region is left, one is entered and one
\* is stayed in.
C2_Witness ==
  /\ Dispatched
  /\ Delivered("exit") # <<>>
  /\ Delivered("enter") # <<>>
  /\ Range(before.visited) \cap PickedSet # {}

\* C3: a raw release over no region delivers exactly one release_none, with
\* no region, and no release; a raw release over regions delivers one release
\* per picked region, in pick-list order, and no release_none; no dispatch
\* delivers both, and press and move deliver no release_none.
C3_ReleaseNone ==
  called.op = "dispatchRawEvent" =>
    /\ (fsm # None /\ called.what = "release" /\ PickedSet = {})
         => /\ Delivered("release_none") = <<None>>
            /\ Delivered("release") = <<>>
    /\ (fsm # None /\ called.what = "release" /\ PickedSet # {})
         => /\ Delivered("release") = PickList
            /\ Delivered("release_none") = <<>>
    /\ Delivered("release_none") = <<>> \/ Delivered("release") = <<>>
    /\ called.what \in {"press", "move"} => Delivered("release_none") = <<>>

\* C3 witness: a release over no region, after regions were visited.
C3_Witness ==
  /\ Dispatched
  /\ called.what = "release"
  /\ before.visited # <<>>
  /\ delivered[Len(delivered)] = Evt("release_none", None)

\* C4: a raw move delivers one move_inside for exactly the regions that are
\* both in the previous visited set and in the pick list, in pick-list order,
\* and none for a region the same dispatch enters or exits.
C4_MoveInside ==
  (Dispatched /\ called.what = "move") =>
    /\ Delivered("move_inside") = Keep(PickList, Range(before.visited))
    /\ Range(Delivered("move_inside")) = PickedSet \cap Range(before.visited)
    /\ NoRepeat(Delivered("move_inside"))
    /\ Range(Delivered("move_inside")) \cap Range(Delivered("enter")) = {}
    /\ Range(Delivered("move_inside")) \cap Range(Delivered("exit")) = {}

\* C4 witness: a move that stays in two regions, enters one and delivers a
\* move_inside for the two only.
C4_Witness ==
  /\ Dispatched
  /\ called.what = "move"
  /\ Len(Delivered("move_inside")) = 2
  /\ Delivered("enter") # <<>>

\* C5: a raw press delivers exactly one press for every region of the pick
\* list, in pick-list order, the regions entered by the same dispatch
\* included, and none for a region outside the pick list.
C5_Press ==
  (Dispatched /\ called.what = "press") =>
    /\ Delivered("press") = PickList
    /\ Range(Delivered("press")) = PickedSet
    /\ Range(Delivered("enter")) \subseteq Range(Delivered("press"))
    /\ NoRepeat(Delivered("press"))

\* C5 witness: a press over three regions, one of them entered by it.
C5_Witness ==
  /\ Dispatched
  /\ called.what = "press"
  /\ Len(Delivered("press")) = 3
  /\ Len(Delivered("enter")) = 1

\* C6: after a dispatchRawEvent on an interactor with an FSM, of any raw
\* kind, the visited set is the pick list of that sample (the same regions
\* in the same order), empty when nothing was picked; it is empty at
\* construction.
C6_VisitedIsPickList ==
  /\ Dispatched => visited = PickList
  /\ (Dispatched /\ PickedSet = {}) => visited = <<>>
  /\ called.op = "new" => visited = <<>>

\* C6 witness: a move replaced a visited set by a different pick list of
\* several regions.
C6_Witness ==
  /\ Dispatched
  /\ called.what = "move"
  /\ Len(visited) >= 2
  /\ before.visited # <<>>
  /\ Range(before.visited) \cap Range(visited) = {}

\* C7: without an FSM, dispatchRawEvent delivers no event, reports no error
\* and leaves the visited set as it was, and pick returns the empty sequence.
C7_NoFsmNoOp ==
  /\ (called.op = "dispatchRawEvent" /\ fsm = None)
       => /\ delivered = <<>>
          /\ emitted = 0
          /\ damaged = <<>>
          /\ visited = before.visited
  /\ (called.op = "pick" /\ fsm = None) => returned = <<>>

\* C7 witness: a dispatch on an interactor that lost its FSM while it had
\* visited regions.
C7_Witness ==
  /\ called.op = "dispatchRawEvent"
  /\ fsm = None
  /\ visited # <<>>

\* C8: pick returns exactly the regions of the FSM whose hit test accepts the
\* point, each once, a region later in the region list earlier in the result,
\* and changes nothing of the interactor: the visited set, the position, the
\* parent, the FSM and the order of its region list.
C8_Pick ==
  called.op = "pick" =>
    /\ fsm # None =>
         /\ returned = PickList
         /\ Range(returned) = PickedSet
         /\ NoRepeat(returned)
         /\ \A i, j \in 1 .. Len(returned) :
              i < j => \E a, b \in 1 .. Len(fsmRegions[fsm]) :
                         /\ a > b
                         /\ fsmRegions[fsm][a] = returned[i]
                         /\ fsmRegions[fsm][b] = returned[j]
    /\ before = Snapshot

\* C8 witness: a pick that returned three regions while others were visited.
C8_Witness ==
  /\ called.op = "pick"
  /\ Len(returned) = 3
  /\ visited # <<>>
  /\ visited # returned

\* The last call on the specification was bindRegion / match.
Bound == esCalled.op = "bindRegion"

Matched == esCalled.op = "match"

\* The regions of the list handed to bindRegion that carry the
\* specification's region name.
Named == {i \in 1 .. Len(esCalled.list) :
            RegionName(esCalled.list[i]) = es.regionName}

\* The rule of bindRegion that applies to the last call: 1 wildcard, 2 a
\* region of the list carries the name, 3 nevermatch, 4 a region-less
\* release_none or any, 5 none of these.
BindRule ==
  CASE es.regionName = "*" -> 1
    [] es.regionName # "*" /\ Named # {} -> 2
    [] es.regionName # "*" /\ Named = {} /\ es.evtType = "nevermatch" -> 3
    [] es.regionName # "*" /\ Named = {} /\ es.evtType # "nevermatch"
         /\ es.evtType \in {"release_none", "any"} /\ es.regionName = "" -> 4
    [] OTHER -> 5

C10_Wildcard ==
  /\ es.regionName = "*" => es.region = None
  /\ (Matched /\ es.regionName = "*") => esReturned = TRUE

\* C10 witness: a wildcard specification, after a bindRegion, matched an
\* event of its kind that carries no region.
C10_Witness ==
  /\ Matched
  /\ es.regionName = "*"
  /\ es.evtType = "press"
  /\ esCalled.evtType = "press"
  /\ esCalled.regn = None
  /\ esReturned = TRUE

\* The kinds of the semantic events dispatchRawEvent delivers.
SemanticKinds == {"enter", "exit", "press", "move_inside", "release",
                  "release_none"}

\* C11: a specification of kind nevermatch, whatever region name it carries
\* (the wildcard included) and whatever bindRegion calls were made on it,
\* matches no semantic event the interactor delivers.
C11_NeverMatch ==
  (Matched /\ es.evtType = "nevermatch" /\ esCalled.evtType \in SemanticKinds)
    => esReturned = FALSE

\* C12: a specification of kind release_none whose region name is not the
\* wildcard matches an event exactly when the event's kind is release_none,
\* whatever region the event carries and whatever region the specification
\* is bound to.
C12_ReleaseNone ==
  (Matched /\ es.evtType = "release_none" /\ es.regionName # "*")
    => (esReturned <=> esCalled.evtType = "release_none")

\* C12 witness: a release_none specification bound to a region matched a
\* release_none event that carries another region.
C12_Witness ==
  /\ Matched
  /\ es.evtType = "release_none"
  /\ es.region # None
  /\ esCalled.evtType = "release_none"
  /\ esCalled.regn # None
  /\ esCalled.regn # es.region
  /\ esReturned = TRUE

\* The last step was a step of the loader.
LoaderSteps == {"startLoadFromJson", "load: fetch rejects",
                "load: response not ok", "load: response ok",
                "load: json rejects", "load: installed"}

\* C13: every change of the position (by the x, y or position setter), every
\* change of the parent and every change of the FSM by the loader sends a
\* damage notification to the hosting surface; a dispatchRawEvent sends none.
C13_DamageOnChange ==
  /\ (called.op \in {"set x", "set y", "set position"}
        /\ (x # before.x \/ y # before.y) /\ parent # None)
       => damaged # <<>>
  /\ (called.op = "set parent" /\ parent # before.parent) => damaged # <<>>
  /\ (called.op \in LoaderSteps /\ fsm # before.fsm /\ parent # None)
       => damaged # <<>>
  /\ called.op = "dispatchRawEvent" => damaged = <<>>

\* C14: a load that fails (the response is not ok, fetch or the JSON parse
\* throws, or building the FSM fails) is reported through Err.emit and leaves
\* the interactor without an FSM.
C14_FailedLoad ==
  called.op \in {"load: fetch rejects", "load: response not ok",
                 "load: json rejects"}
    => emitted >= 1 /\ fsm = None

\* C15: for a specification that is neither named "*" nor of kind
\* release_none, match returns true exactly when the event's kind is the
\* specification's and the event's region is the very region object the
\* specification is bound to: another region of the same name does not
\* match, and an unbound specification matches only an event of its kind
\* that carries no region.
C15_KindAndIdentity ==
  (Matched /\ es.regionName # "*" /\ es.evtType # "release_none") =>
    /\ esReturned <=> (esCalled.evtType = es.evtType /\ esCalled.regn = es.region)
    /\ (esCalled.regn # es.region /\ esCalled.regn # None /\ es.region # None
          /\ RegionName(esCalled.regn) = RegionName(es.region))
         => esReturned = FALSE
    /\ (es.region = None /\ esReturned)
         => esCalled.regn = None /\ esCalled.evtType = es.evtType

\* C15 witness: a specification bound to a region did not match an event of
\* its kind that carries another region of the same name.
C15_Witness ==
  /\ Matched
  /\ es.evtType = "press"
  /\ esCalled.evtType = "press"
  /\ es.region # None
  /\ esCalled.regn # None
  /\ esCalled.regn # es.region
  /\ RegionName(esCalled.regn) = RegionName(es.region)
  /\ esReturned = FALSE

\* C16 as claimed: the kind and the region name never change, and once a
\* bindRegion call has set the resolved region, or left it unset without an
\* error, a later bindRegion call, with any region list, leaves the resolved
\* region as it is.
C16_NeverRebound ==
  [][/\ es'.evtType = es.evtType
     /\ es'.regionName = es.regionName
     /\ (esCalled.op = "bindRegion" /\ emitted = 0
           /\ esCalled'.op = "bindRegion")
          => es'.region = es.region
    ]_vars

\* C16 as amended: the kind and the region name never change, and once a
\* bindRegion call has set the resolved region, or left it unset without an
\* error, a bindRegion call right after it with the same region list leaves
\* the resolved region as it is.
C16_SameListKeeps ==
  [][/\ es'.evtType = es.evtType
     /\ es'.regionName = es.regionName
     /\ (esCalled.op = "bindRegion" /\ emitted = 0
           /\ esCalled'.op = "bindRegion"
           /\ esCalled'.list = esCalled.list)
          => es'.region = es.region
    ]_vars

\* C16 witness: bindRegion was called on a specification that was bound
\* already and left it bound to the same region.
C16_Witness ==
  /\ Bound
  /\ esBefore.region # None
  /\ es.region = esBefore.region
  /\ es.region \in Range(esCalled.list)

\* C17: the visited set is changed by dispatchRawEvent on an interactor with
\* an FSM only, and only by replacing it with the pick list of the sample;
\* pick, draw, damage, the setters and every step of the loader leave it as
\* it is, and the exit, enter and move_inside events of a dispatch are those
\* of the visited set as the dispatch found it.
C17_VisitedFrame ==
  /\ visited # before.visited
       => called.op = "dispatchRawEvent" /\ before.fsm # None /\ visited = PickList
  /\ called.op \in {"pick", "draw", "damage", "set x", "set y", "set position",
                    "set parent"} \cup LoaderSteps
       => visited = before.visited
  /\ Dispatched =>
       /\ Delivered("exit") = Drop(before.visited, PickedSet)
       /\ Delivered("enter") = Drop(PickList, Range(before.visited))
       /\ called.what = "move"
            => Delivered("move_inside") = Keep(PickList, Range(before.visited))

\* C17 witness: the loader installed an FSM on an interactor that had visited
\* regions, and the visited set is as it was.
C17_Witness ==
  /\ called.op = "load: installed"
  /\ fsm # before.fsm
  /\ visited # <<>>
  /\ visited = before.visited

\* C18: on an interactor whose FSM does not change, over any sequence of
\* dispatchRawEvent calls the FSM is handed an enter of a region only while
\* it is not inside of it, an exit, press, move_inside or release of a region
\* only while it is inside of it (an enter came and no exit since), and a
\* release_none only while it is inside of no region; so the enters and
\* exits of each region alternate, starting with an enter, and the regions
\* the FSM is inside of are those of the visited set.
C18_EnterExitAlternate ==
  /\ orderly
  /\ inside = Range(visited)
  /\ Dispatched => \A i \in 1..Len(delivered) :
       LET e == delivered[i]
           ins == actOnEvents(Range(before.visited), SubSeq(delivered, 1, i - 1)).inside
       IN  CASE e.kind = "enter" -> e.region \notin ins
             [] e.kind = "release_none" -> ins = {}
             [] OTHER -> e.region \in ins

\* C18 witness: a dispatch on an interactor that had visited regions handed
\* the FSM an exit, an enter and a move_inside.
C18_Witness ==
  /\ Dispatched
  /\ before.visited # <<>>
  /\ Delivered("exit") # <<>>
  /\ Delivered("enter") # <<>>
  /\ Delivered("move_inside") # <<>>

\* C19: every region of the visited set is a region of the installed FSM,
\* and every event a dispatch hands to the FSM carries a region of that FSM
\* or none.
C19_VisitedOfInstalledFsm ==
  /\ fsm # None => Range(visited) \subseteq Range(fsmRegions[fsm])
  /\ Dispatched => \A i \in 1..Len(delivered) :
       delivered[i].region = None \/ delivered[i].region \in Range(fsmRegions[fsm])

====
